---- MODULE Spec2Model ----
(***************************************************************************)
(* State-machine model of the worker core, backend/src/worker.rs:          *)
(*   - the dispatcher loop run_worker with handle_queued_job, handle_job   *)
(*     and the language runners (SpecDispatch);                            *)
(*   - the child supervisor handle_child with its waiter, log streamer,    *)
(*     pinger and flush loop (SpecChild);                                  *)
(*   - the lease protocol between dispatchers, pingers and the zombie      *)
(*     reaper restart_zombie_jobs_periodically (SpecLease).                *)
(* Calls into other modules of the crate (jobs, worker_flow, users, the    *)
(* database) are external: each returns nondeterministically Ok or Err.    *)
(***************************************************************************)
EXTENDS Integers, Sequences, FiniteSets, TLC

\* ------------------------------------------------------------------------
\* Bounds of the model
\* ------------------------------------------------------------------------

\* jobs one dispatcher leases in a run
MaxJobs == 2

\* ------------------------------------------------------------------------
\* Dispatcher: state
\* ------------------------------------------------------------------------

VARIABLES
    dpc,            \* position of the dispatcher task in run_worker and its callees
    job,            \* the leased QueuedJob (NoJob between jobs)
    calls,          \* external calls and effects made for the leased job, in order
    jobDir,         \* the scratch directory <worker_dir>/<job_id>
    status,         \* handle_job's local `status`
    execution,      \* what handle_job returned to handle_queued_job
    errCause,       \* origin of the error being propagated, "none" if none
    nd,             \* (language, requirements) resolved by handle_nondep_job
    jobs_executed,  \* run_worker's counter
    killpill        \* a shutdown signal has been broadcast

dvars == <<dpc, job, calls, jobDir, status, execution, errCause, nd,
           jobs_executed, killpill>>

NoJob == [kind |-> "none"]

JobKinds == {"Script", "Preview", "Script_Hub", "Dependencies", "Flow", "FlowPreview"}
FlowKinds == {"Flow", "FlowPreview"}
RawKinds == {"Preview", "Script_Hub"}
Langs == {"python3", "deno", "none"}

\* The rows pull may return: every combination of the fields the core reads.
JobSet ==
    [kind : JobKinds, is_flow_step : BOOLEAN, has_parent : BOOLEAN,
     language : Langs, raw_code : BOOLEAN]

\* Result<ExitStatus, Error> as handle_child returns it
ChildResults == {"success", "failure", "interrupted"}

NoNd == [language |-> "none", requirements |-> FALSE]

Call(f, on, ok, arg) == [f |-> f, on |-> on, ok |-> ok, arg |-> arg]

\* the first error raised while the leased job is handled
FirstCause(c) == IF errCause = "none" THEN c ELSE errCause

\* handle_job returns Err(e) through a `?` before reaching remove_dir_all
HJ_EarlyErr(cause) ==
    /\ execution' = "err"
    /\ errCause' = cause
    /\ dpc' = "hq_complete"

\* ------------------------------------------------------------------------
\* Child supervisor (handle_child): constants
\* Time is counted in units of 500 ms.
\* ------------------------------------------------------------------------

\* MAX_LOG_SIZE, scaled (50000 in the source): lines and logs are counted in characters
MAX_LOG_SIZE == 2

\* mpsc::channel::<String>(100)
ChanCap == 100

\* the flush loop's period: 500 ms
TickPeriod == 1

\* the done poller's sleep: 1 s
PollPeriod == 2

\* the pinger's sleep: 5 s
PingPeriod == 10

\* run_worker's `timeout`, in seconds
Timeout == 1

\* lines the child writes in a run
MaxLines == 2

\* the clock's horizon
MaxTime == 6

\* "job <id> on worker <name>\n" and the runner's section marker, scaled to one character
Header == <<"H">>

\* "\n\n--- PYTHON CODE EXECUTION ---\n", scaled to one character
ExecMarker == <<"P">>

\* "Too many logs lines. Limit is 50000 chars. Killing job.", scaled to one character
TooManyMsg == <<"T">>

\* "Line is too big", scaled to one character
TooBigMsg == <<"B">>

\* last_line as handle_queued_job creates it: "{}"
InitLastLine == <<"{}">>

\* the k-th line the child writes, n characters long
LineChars == <<"a", "b", "c", "d">>
Line(k, n) == [i \in 1..n |-> LineChars[k]]

\* lengths of the lines a child may write: short, and over the cap
LineLens == {1, MAX_LOG_SIZE + 1}

\* ------------------------------------------------------------------------
\* Child supervisor: state
\* ------------------------------------------------------------------------

VARIABLES
    now,         \* the wall clock
    started_at,  \* job.started_at
    phase,       \* which handle_child call of the runner this is
    childState,  \* the child process: running, exited, killed
    exitOk,      \* the exit status is success (once exited)
    outOpen,     \* the child's end of stdout is open
    errOpen,     \* the child's end of stderr is open
    pipeOut,     \* lines written to stdout and not yet read
    pipeErr,     \* lines written to stderr and not yet read
    written,     \* every line the child wrote, in order (history)
    done,        \* the shared AtomicBool
    wpc,         \* the process waiter: waiting, finished
    wres,        \* what the waiter task returns
    pollWake,    \* when the done poller next loads `done`
    spc,         \* the log streamer: check, wait, exited
    chan,        \* the log channel
    ppc,         \* the pinger: run, exited
    pingWake,    \* when the pinger next runs
    supPc,       \* the supervisor: loop, select, join, returned
    logs,        \* the job's in-memory logs
    last_line,
    start,       \* characters of logs already flushed
    last_update, \* time of the last flush tick
    result,      \* what handle_child returns
    dbLogs,      \* queue.logs
    canceled,    \* queue.canceled
    canceledBy,  \* queue.canceled_by
    last_ping,   \* queue.last_ping
    cancelAt,    \* when canceled was set from outside, -1 if never (history)
    dbFailed,    \* some database call of the supervisor has failed (history)
    askedKill    \* done has been stored by the streamer or the supervisor while the
                 \* child was running (history)

cvars == <<now, started_at, phase, childState, exitOk, outOpen, errOpen, pipeOut,
           pipeErr, written, done, wpc, wres, pollWake, spc, chan, ppc, pingWake,
           supPc, logs, last_line, start, last_update, result, dbLogs, canceled,
           canceledBy, last_ping, cancelAt, dbFailed, askedKill>>

\* ------------------------------------------------------------------------
\* Lease protocol: constants and state. Time is counted in seconds.
\* ------------------------------------------------------------------------

\* dispatchers pulling from the queue
NumWorkers == 2

\* rows of the queue
NumRows == 1

\* the lease clock's horizon
MaxClock == 8

\* the pinger's sleep, in seconds
PingSecs == 5

\* the reaper's sleep, in seconds
ReapSecs == 60

\* restart_zombie_jobs_periodically: timeout * 5
StaleFactor == 5

Workers == 1..NumWorkers
Rows == 1..NumRows

VARIABLES
    clock,        \* the wall clock, in seconds
    present,      \* present[j]: row j is in the queue
    running,      \* queue.running
    q_last_ping,  \* queue.last_ping
    holder,       \* holder[w]: the row dispatcher w is handling, 0 if none
    wphase,       \* dispatcher w: idle, setup, child, finish
    pingAt,       \* when w's pinger next runs
    reapWake,     \* when the reaper's sleep ends
    rpc,          \* the reaper: pass, select, stopped
    l_killpill,   \* the shutdown signal has been broadcast to the reaper
    lapsed        \* lapsed[w]: since w leased its row, last_ping has at some time
                  \* been more than 5 * timeout behind the clock (history)

lvars == <<clock, present, running, q_last_ping, holder, wphase, pingAt, reapWake,
           rpc, l_killpill, lapsed>>

\* ------------------------------------------------------------------------
\* Argument resolution (transform_json_value): values and state
\* ------------------------------------------------------------------------

\* symbols a string is made of, at most
MaxStrLen == 4

\* a string is a sequence of symbols; the two placeholder prefixes are one symbol each
Sym == {"$var:", "$res:", "/", "a"}
Strs == UNION {[1..n -> Sym] : n \in 0..MaxStrLen}

\* serde_json::Value
Null == [t |-> "null", v |-> 0]
Bool(b) == [t |-> "bool", v |-> b]
Num(n) == [t |-> "num", v |-> n]
Str(y) == [t |-> "str", v |-> y]
Arr(a) == [t |-> "arr", v |-> a]
Obj(m) == [t |-> "obj", v |-> m]

Leaves == {Null} \cup {Bool(b) : b \in BOOLEAN} \cup {Num(n) : n \in 0..1}
              \cup {Str(y) : y \in Strs}

\* the arguments handed to the resolver: scalars, an array, objects one and two deep
ArgValues ==
    Leaves
        \cup {Arr(<<>>)} \cup {Arr(<<x>>) : x \in Leaves}
        \cup {Obj(<<>>)} \cup {Obj([k \in {"k"} |-> x]) : x \in Leaves}
        \cup {Obj([k \in {"k"} |-> Arr(<<x>>)]) : x \in Leaves}
        \cup {Obj([k \in {"k"} |-> Obj([j \in {"k"} |-> x])]) : x \in Leaves}

\* the one variable and the one resource the service may know
VarPath == <<"a">>
ResPath == <<"a", "/", "a">>

\* what get_variable answers for VarPath: Err, or Ok(String)
VarAnswers ==
    {[ok |-> FALSE, val |-> <<>>]}
        \cup {[ok |-> TRUE, val |-> y] : y \in {<<"a">>, <<"$var:", "a">>}}

\* what get_resource answers for ResPath: Err, Ok(None), or Ok(Some(value))
ResValues ==
    {Null, Num(1), Str(<<"a">>), Str(<<"$var:", "a">>), Str(<<"$res:", "a">>),
     Arr(<<Str(<<"$var:", "a">>)>>),
     Obj([k \in {"k"} |-> Str(<<"a">>)]),
     Obj([k \in {"k"} |-> Str(<<"$var:", "a">>)])}
ResAnswers ==
    {[kind |-> "err", val |-> Null], [kind |-> "none", val |-> Null]}
        \cup {[kind |-> "some", val |-> x] : x \in ResValues}

\* a resource whose value is, or holds inside an object, a reference to itself
CyclicResValues ==
    {Str(<<"$res:">> \o ResPath), Obj([k \in {"k"} |-> Str(<<"$res:">> \o ResPath)])}
AllResAnswers ==
    ResAnswers \cup {[kind |-> "some", val |-> x] : x \in CyclicResValues}

\* nested calls of transform_json_value the step-by-step resolver is followed to
MaxDepth == 5

VARIABLES
    tj_pc,      \* start, once, twice; call, ret, finished when run step by step
    tj_in,      \* the value to resolve
    tj_out,     \* transform_json_value(tj_in)
    tj_out2,    \* transform_json_value(tj_out)
    variable,   \* the service's answer for VarPath
    resource,   \* the service's answer for ResPath
    tj_cur,     \* the value v of the innermost call of transform_json_value
    tj_stack    \* the calls of transform_json_value awaiting an inner call

tvars == <<tj_pc, tj_in, tj_out, tj_out2, variable, resource, tj_cur, tj_stack>>

\* what the steps of each part leave alone
nonD == <<cvars, lvars, tvars>>
nonC == <<dvars, lvars, tvars>>
nonL == <<dvars, cvars, tvars>>
nonT == <<dvars, cvars, lvars>>

vars == <<dvars, cvars, lvars, tvars>>

childVars == <<childState, exitOk, outOpen, errOpen, pipeOut, pipeErr, written>>
waiterVars == <<wpc, wres, pollWake>>
pingerVars == <<ppc, pingWake, last_ping>>
supVars == <<supPc, logs, last_line, start, last_update, result>>
rowVars == <<dbLogs, canceled, canceledBy, cancelAt>>
reaperVars == <<reapWake, rpc, l_killpill>>

\* ------------------------------------------------------------------------
\* Dispatcher: run_worker
\* ------------------------------------------------------------------------

D_Init ==
    /\ dpc = "loop_top"
    /\ job = NoJob
    /\ calls = <<>>
    /\ jobDir = "absent"
    /\ status = "not_started"
    /\ execution = "none"
    /\ errCause = "none"
    /\ nd = NoNd
    /\ jobs_executed = 0
    /\ killpill = FALSE

\* worker_ping refresh at the top of the loop; .expect() panics on a failed update
D_LoopTop ==
    /\ dpc = "loop_top"
    /\ \E due \in BOOLEAN, ok \in BOOLEAN :
         dpc' = IF due /\ ~ok THEN "panicked" ELSE "pull"
    /\ UNCHANGED <<job, calls, jobDir, status, execution, errCause, nd,
                   jobs_executed, killpill>>
    /\ UNCHANGED nonD

\* pull issued without awaiting handle_queued_job and the escalation of the job
\* leased before
D_PullSomeEarly ==
    /\ dpc \notin {"loop_top", "select", "stopped", "panicked"}
    /\ jobs_executed < MaxJobs
    /\ \E j \in JobSet :
         /\ job' = j
         /\ calls' = <<>>
         /\ jobDir' = "absent"
         /\ status' = "not_started"
         /\ execution' = "none"
         /\ errCause' = "none"
         /\ nd' = NoNd
         /\ jobs_executed' = jobs_executed + 1
         /\ dpc' = "hq_start"
    /\ UNCHANGED killpill
    /\ UNCHANGED nonD

\* Ok(Some(job)): jobs_executed += 1, then handle_queued_job
D_PullSome ==
    /\ dpc = "pull"
    /\ jobs_executed < MaxJobs
    /\ \E j \in JobSet :
         /\ job' = j
         /\ calls' = <<>>
         /\ jobDir' = "absent"
         /\ status' = "not_started"
         /\ execution' = "none"
         /\ errCause' = "none"
         /\ nd' = NoNd
         /\ jobs_executed' = jobs_executed + 1
         /\ dpc' = "hq_start"
    /\ UNCHANGED killpill
    /\ UNCHANGED nonD

\* Ok(None) and Err(err)
D_PullNone ==
    /\ dpc = "pull"
    /\ job' = NoJob
    /\ calls' = <<>>
    /\ jobDir' = "absent"
    /\ status' = "not_started"
    /\ execution' = "none"
    /\ errCause' = "none"
    /\ nd' = NoNd
    /\ dpc' = "select"
    /\ UNCHANGED <<jobs_executed, killpill>>
    /\ UNCHANGED nonD

\* the dispatcher while the supervisor is studied on its own: inside handle_child
D_Idle ==
    /\ dpc = "handle_child"
    /\ job = NoJob
    /\ calls = <<>>
    /\ jobDir = "present"
    /\ status = "not_started"
    /\ execution = "none"
    /\ errCause = "none"
    /\ nd = NoNd
    /\ jobs_executed = 1
    /\ killpill = FALSE

\* handle_queued_job returned Err: add_completed_job_error, its error swallowed
D_ErrRecord ==
    /\ dpc = "err_record"
    /\ \E ok \in BOOLEAN :
         calls' = Append(calls, Call("add_completed_job_error", "job", ok, "unexpected"))
    /\ dpc' = "err_postprocess"
    /\ UNCHANGED <<job, jobDir, status, execution, errCause, nd, jobs_executed, killpill>>
    /\ UNCHANGED nonD

\* the flow callback chosen on is_flow_step instead of parent_job
D_ErrPostprocessOnFlowStep ==
    /\ dpc = "err_postprocess"
    /\ \E ok \in BOOLEAN :
         calls' = Append(calls, Call("postprocess_queued_job", "job", ok, "na"))
    /\ dpc' = IF job.is_flow_step THEN "err_flow" ELSE "select"
    /\ UNCHANGED <<job, jobDir, status, execution, errCause, nd, jobs_executed, killpill>>
    /\ UNCHANGED nonD

\* postprocess_queued_job, its result dropped; then `if let Some(..) = job.parent_job`
D_ErrPostprocess ==
    /\ dpc = "err_postprocess"
    /\ \E ok \in BOOLEAN :
         calls' = Append(calls, Call("postprocess_queued_job", "job", ok, "na"))
    /\ dpc' = IF job.has_parent THEN "err_flow" ELSE "select"
    /\ UNCHANGED <<job, jobDir, status, execution, errCause, nd, jobs_executed, killpill>>
    /\ UNCHANGED nonD

\* the parent's error handling entered whatever the callback returned
D_ErrFlowAlwaysParent ==
    /\ dpc = "err_flow"
    /\ \E ok \in BOOLEAN :
         /\ calls' = Append(calls,
                Call("update_flow_status_after_job_completion", "job", ok, "false"))
         /\ dpc' = "err_parent"
    /\ UNCHANGED <<job, jobDir, status, execution, errCause, nd, jobs_executed, killpill>>
    /\ UNCHANGED nonD

\* update_flow_status_after_job_completion(db, &job, false, m); on Err the parent's
\* error handling follows
D_ErrFlow ==
    /\ dpc = "err_flow"
    /\ \E ok \in BOOLEAN :
         /\ calls' = Append(calls,
                Call("update_flow_status_after_job_completion", "job", ok, "false"))
         /\ dpc' = IF ok THEN "select" ELSE "err_parent"
    /\ UNCHANGED <<job, jobDir, status, execution, errCause, nd, jobs_executed, killpill>>
    /\ UNCHANGED nonD

\* db.begin, get_queued_job(parent), then the error row and post-processing of the
\* parent; nothing is done when the transaction does not open or the fetch yields
\* no parent (`found` false: Err of either, or Ok(None))
D_ErrParent ==
    /\ dpc = "err_parent"
    /\ \E found \in BOOLEAN, ok1 \in BOOLEAN, ok2 \in BOOLEAN :
         calls' = IF found
                  THEN calls \o <<Call("get_queued_job", "parent", TRUE, "na"),
                                  Call("add_completed_job_error", "parent", ok1, "flow_error"),
                                  Call("postprocess_queued_job", "parent", ok2, "na")>>
                  ELSE Append(calls, Call("get_queued_job", "parent", FALSE, "na"))
    /\ dpc' = "select"
    /\ UNCHANGED <<job, jobDir, status, execution, errCause, nd, jobs_executed, killpill>>
    /\ UNCHANGED nonD

\* select! { sleep => (), rx.recv() => break }
D_SelectSleep ==
    /\ dpc = "select"
    /\ dpc' = "loop_top"
    /\ UNCHANGED <<job, calls, jobDir, status, execution, errCause, nd,
                   jobs_executed, killpill>>
    /\ UNCHANGED nonD

D_SelectKillpill ==
    /\ dpc = "select"
    /\ killpill
    /\ dpc' = "stopped"
    /\ UNCHANGED <<job, calls, jobDir, status, execution, errCause, nd,
                   jobs_executed, killpill>>
    /\ UNCHANGED nonD

\* environment: the bootstrap broadcasts the shutdown signal
Shutdown ==
    /\ ~killpill
    /\ killpill' = TRUE
    /\ UNCHANGED <<dpc, job, calls, jobDir, status, execution, errCause, nd,
                   jobs_executed>>
    /\ UNCHANGED nonD

\* ------------------------------------------------------------------------
\* Dispatcher: handle_queued_job
\* ------------------------------------------------------------------------

HQ_Flow ==
    /\ dpc = "hq_start"
    /\ job.kind \in FlowKinds
    /\ \E ok \in BOOLEAN :
         /\ calls' = Append(calls, Call("handle_flow", "job", ok, "na"))
         /\ dpc' = IF ok THEN "select" ELSE "err_record"
         /\ errCause' = IF ok THEN "none" ELSE "handle_flow"
    /\ UNCHANGED <<job, jobDir, status, execution, nd, jobs_executed, killpill>>
    /\ UNCHANGED nonD

HQ_Start ==
    /\ dpc = "hq_start"
    /\ job.kind \notin FlowKinds
    /\ IF ~job.is_flow_step
       THEN /\ dpc' = "hj_create_dir"
            /\ UNCHANGED <<calls, errCause>>
       ELSE IF ~job.has_parent
       THEN /\ dpc' = "err_record"
            /\ errCause' = "expected_parent"
            /\ UNCHANGED calls
       ELSE \E ok \in BOOLEAN :
            /\ calls' = Append(calls, Call("update_flow_status_in_progress", "job", ok, "na"))
            /\ dpc' = IF ok THEN "hj_create_dir" ELSE "err_record"
            /\ errCause' = IF ok THEN "none" ELSE "update_flow_status_in_progress"
    /\ UNCHANGED <<job, jobDir, status, execution, nd, jobs_executed, killpill>>
    /\ UNCHANGED nonD

HQ_Complete ==
    /\ dpc = "hq_complete"
    /\ \E ok \in BOOLEAN :
         /\ calls' = Append(calls,
                IF execution = "ok"
                THEN Call("add_completed_job", "job", ok, "true")
                ELSE Call("add_completed_job_error", "job", ok, "logs"))
         /\ dpc' = IF ~ok THEN "err_record"
                   ELSE IF job.is_flow_step THEN "hq_flow_update" ELSE "hq_postprocess"
         /\ errCause' = IF ok THEN errCause
                        ELSE IF execution = "ok" THEN FirstCause("add_completed_job")
                        ELSE FirstCause("add_completed_job_error")
    /\ UNCHANGED <<job, jobDir, status, execution, nd, jobs_executed, killpill>>
    /\ UNCHANGED nonD

HQ_FlowUpdate ==
    /\ dpc = "hq_flow_update"
    /\ \E ok \in BOOLEAN :
         /\ calls' = Append(calls,
                Call("update_flow_status_after_job_completion", "job", ok,
                     IF execution = "ok" THEN "true" ELSE "false"))
         /\ dpc' = IF ok THEN "hq_postprocess" ELSE "err_record"
         /\ errCause' = IF ok THEN errCause
                        ELSE FirstCause("update_flow_status_after_job_completion")
    /\ UNCHANGED <<job, jobDir, status, execution, nd, jobs_executed, killpill>>
    /\ UNCHANGED nonD

\* a post-processing whose error is returned to the dispatcher
HQ_PostprocessPropagates ==
    /\ dpc = "hq_postprocess"
    /\ \E ok \in BOOLEAN :
         /\ calls' = Append(calls, Call("postprocess_queued_job", "job", ok, "na"))
         /\ dpc' = IF ok THEN "select" ELSE "err_record"
         /\ errCause' = IF ok THEN errCause ELSE FirstCause("postprocess_queued_job")
    /\ UNCHANGED <<job, jobDir, status, execution, nd, jobs_executed, killpill>>
    /\ UNCHANGED nonD

\* let _ = postprocess_queued_job(..).await; Ok(())
HQ_Postprocess ==
    /\ dpc = "hq_postprocess"
    /\ \E ok \in BOOLEAN :
         calls' = Append(calls, Call("postprocess_queued_job", "job", ok, "na"))
    /\ dpc' = "select"
    /\ UNCHANGED <<job, jobDir, status, execution, errCause, nd, jobs_executed, killpill>>
    /\ UNCHANGED nonD

\* ------------------------------------------------------------------------
\* Dispatcher: handle_job and the runners
\* ------------------------------------------------------------------------

\* DirBuilder::create(<job_dir>/dependencies).expect(..): a failure panics
HJ_CreateDir ==
    /\ dpc = "hj_create_dir"
    /\ \E ok \in BOOLEAN :
         IF ok
         THEN /\ jobDir' = "present"
              /\ dpc' = IF job.kind = "Dependencies" THEN "dep_prepare" ELSE "nd_resolve"
              /\ UNCHANGED errCause
         ELSE /\ dpc' = "panicked"
              /\ errCause' = "create_dir"
              /\ UNCHANGED jobDir
    /\ UNCHANGED <<job, calls, status, execution, nd, jobs_executed, killpill>>
    /\ UNCHANGED nonD

\* handle_dependency_job up to the spawn of pip-compile
Dep_Prepare ==
    /\ dpc = "dep_prepare"
    /\ IF ~job.raw_code
       THEN HJ_EarlyErr("missing_requirements")
       ELSE \E r \in {"ok", "fill_dir", "spawn"} :
              IF r = "ok"
              THEN /\ dpc' = "dep_child"
                   /\ UNCHANGED <<execution, errCause>>
              ELSE HJ_EarlyErr(r)
    /\ UNCHANGED <<job, calls, jobDir, status, nd, jobs_executed, killpill>>
    /\ UNCHANGED nonD

Dep_Child ==
    /\ dpc = "dep_child"
    /\ \E r \in ChildResults : status' = r
    /\ calls' = Append(calls, Call("handle_child", "job", TRUE, "pip-compile"))
    /\ dpc' = "dep_record"
    /\ UNCHANGED <<job, jobDir, execution, errCause, nd, jobs_executed, killpill>>
    /\ UNCHANGED nonD

\* the lock, or the logs of the failed run, written to the script row
Dep_Record ==
    /\ dpc = "dep_record"
    /\ IF status = "success"
       THEN \E r \in {"ok", "read_lock", "db"} :
              IF r = "read_lock"
              THEN HJ_EarlyErr(r) /\ UNCHANGED calls
              ELSE /\ calls' = Append(calls, Call("script.lock", "job", r = "ok", "na"))
                   /\ IF r = "ok"
                      THEN dpc' = "hj_remove_dir" /\ UNCHANGED <<execution, errCause>>
                      ELSE HJ_EarlyErr(r)
       ELSE \E ok \in BOOLEAN :
              /\ calls' = Append(calls, Call("script.lock_error_logs", "job", ok, "na"))
              /\ IF ok
                 THEN dpc' = "hj_remove_dir" /\ UNCHANGED <<execution, errCause>>
                 ELSE HJ_EarlyErr("db")
    /\ UNCHANGED <<job, jobDir, status, nd, jobs_executed, killpill>>
    /\ UNCHANGED nonD

\* handle_nondep_job: (inner_content, requirements_o, language)
ND_Resolve ==
    /\ dpc = "nd_resolve"
    /\ IF job.kind \in RawKinds
       THEN IF job.language = "python3"
            THEN \E ok \in BOOLEAN :
                   IF ok
                   THEN /\ nd' = [language |-> job.language, requirements |-> TRUE]
                        /\ dpc' = "nd_language"
                        /\ UNCHANGED <<execution, errCause>>
                   ELSE HJ_EarlyErr("parse_imports") /\ UNCHANGED nd
            ELSE /\ nd' = [language |-> job.language, requirements |-> FALSE]
                 /\ dpc' = "nd_language"
                 /\ UNCHANGED <<execution, errCause>>
       ELSE \E r \in {"row", "db", "missing_script"} :
              IF r = "row"
              THEN \E l \in Langs, lock \in BOOLEAN :
                     /\ nd' = [language |-> l, requirements |-> lock]
                     /\ dpc' = "nd_language"
                     /\ UNCHANGED <<execution, errCause>>
              ELSE HJ_EarlyErr(r) /\ UNCHANGED nd
    /\ UNCHANGED <<job, calls, jobDir, status, jobs_executed, killpill>>
    /\ UNCHANGED nonD

\* match language
ND_Language ==
    /\ dpc = "nd_language"
    /\ IF nd.language = "none"
       THEN HJ_EarlyErr("null_language")
       ELSE IF nd.language = "python3" /\ ~nd.requirements
       THEN HJ_EarlyErr("missing_lockfile")
       ELSE /\ dpc' = IF nd.language = "python3" THEN "py_install_prep" ELSE "deno_prep"
            /\ UNCHANGED <<execution, errCause>>
    /\ UNCHANGED <<job, calls, jobDir, status, nd, jobs_executed, killpill>>
    /\ UNCHANGED nonD

\* download.config.proto, requirements.txt, spawn of the install child
Py_InstallPrep ==
    /\ dpc = "py_install_prep"
    /\ \E r \in {"ok", "fill_dir", "spawn"} :
         IF r = "ok"
         THEN /\ dpc' = "py_install_child"
              /\ UNCHANGED <<execution, errCause>>
         ELSE HJ_EarlyErr(r)
    /\ UNCHANGED <<job, calls, jobDir, status, nd, jobs_executed, killpill>>
    /\ UNCHANGED nonD

\* *status = handle_child(install); the execution phase is entered if status.is_ok()
Py_InstallOk(r) == r \in {"success", "failure"}

Py_InstallChild ==
    /\ dpc = "py_install_child"
    /\ \E r \in ChildResults :
         /\ status' = r
         /\ dpc' = IF Py_InstallOk(r) THEN "py_exec_prep" ELSE "hj_remove_dir"
    /\ calls' = Append(calls, Call("handle_child", "job", TRUE, "install"))
    /\ UNCHANGED <<job, jobDir, execution, errCause, nd, jobs_executed, killpill>>
    /\ UNCHANGED nonD

\* set_logs, inner.py, signature, token, args.json, main.py, env, spawn of the
\* interpreter; `upto` is how far the phase gets before an error returns
ExecPrepSteps == <<"write_inner", "create_token", "spawn_exec">>

ExecPrep(next) ==
    \E upto \in 0..Len(ExecPrepSteps), ok \in BOOLEAN :
      /\ calls' = calls \o [i \in 1..upto |-> Call(ExecPrepSteps[i], "job", TRUE, "na")]
      /\ IF upto = Len(ExecPrepSteps) /\ ok
         THEN /\ dpc' = next
              /\ UNCHANGED <<execution, errCause>>
         ELSE HJ_EarlyErr(IF upto = Len(ExecPrepSteps) THEN "spawn" ELSE "fill_dir")

Py_ExecPrep ==
    /\ dpc = "py_exec_prep"
    /\ ExecPrep("py_exec_child")
    /\ UNCHANGED <<job, jobDir, status, nd, jobs_executed, killpill>>
    /\ UNCHANGED nonD

Py_ExecChild ==
    /\ dpc = "py_exec_child"
    /\ \E r \in ChildResults : status' = r
    /\ calls' = Append(calls, Call("handle_child", "job", TRUE, "exec"))
    /\ dpc' = "hj_remove_dir"
    /\ UNCHANGED <<job, jobDir, execution, errCause, nd, jobs_executed, killpill>>
    /\ UNCHANGED nonD

Deno_Prep ==
    /\ dpc = "deno_prep"
    /\ ExecPrep("deno_child")
    /\ UNCHANGED <<job, jobDir, status, nd, jobs_executed, killpill>>
    /\ UNCHANGED nonD

Deno_Child ==
    /\ dpc = "deno_child"
    /\ \E r \in ChildResults : status' = r
    /\ calls' = Append(calls, Call("handle_child", "job", TRUE, "exec"))
    /\ dpc' = "hj_remove_dir"
    /\ UNCHANGED <<job, jobDir, execution, errCause, nd, jobs_executed, killpill>>
    /\ UNCHANGED nonD

\* tokio::fs::remove_dir_all(job_dir).await?
HJ_RemoveDir ==
    /\ dpc = "hj_remove_dir"
    /\ \E ok \in BOOLEAN :
         IF ok
         THEN /\ jobDir' = "absent"
              /\ dpc' = "hj_result"
              /\ UNCHANGED <<execution, errCause>>
         ELSE /\ HJ_EarlyErr("remove_dir")
              /\ UNCHANGED jobDir
    /\ UNCHANGED <<job, calls, status, nd, jobs_executed, killpill>>
    /\ UNCHANGED nonD

\* the result parsed from last_line, or the ExecutionErr built from status
HJ_Result ==
    /\ dpc = "hj_result"
    /\ IF status = "success"
       THEN \E parsable \in BOOLEAN :
              /\ execution' = IF parsable THEN "ok" ELSE "err"
              /\ errCause' = IF parsable THEN errCause ELSE "not_parsable"
       ELSE /\ execution' = "err"
            /\ errCause' = IF status = "failure" THEN "user_code" ELSE "interrupted"
    /\ dpc' = "hq_complete"
    /\ UNCHANGED <<job, calls, jobDir, status, nd, jobs_executed, killpill>>
    /\ UNCHANGED nonD


\* the state on entry to handle_child: for the install child of a Python job the
\* header has been pushed to logs but never written to the row; for the execution
\* child set_logs has just stored logs
C_Init ==
    /\ now = 0
    /\ started_at = 0
    /\ phase \in {"install", "exec"}
    /\ childState = "running"
    /\ exitOk = FALSE
    /\ outOpen = TRUE
    /\ errOpen = TRUE
    /\ pipeOut = <<>>
    /\ pipeErr = <<>>
    /\ written = <<>>
    /\ done = FALSE
    /\ wpc = "waiting"
    /\ wres = "none"
    /\ pollWake = PollPeriod
    /\ spc = "check"
    /\ chan = <<>>
    /\ ppc = "run"
    /\ pingWake = 0
    /\ supPc = "loop"
    /\ logs = Header
    /\ last_line = InitLastLine
    /\ start = Len(Header)
    /\ last_update = 0
    /\ result = "none"
    /\ dbLogs = IF phase = "install" THEN <<>> ELSE Header
    /\ canceled = FALSE
    /\ canceledBy = "none"
    /\ last_ping = 0
    /\ cancelAt = -1
    /\ dbFailed = FALSE
    /\ askedKill = FALSE

\* no child: the supervisor while the dispatcher is studied on its own
C_Idle ==
    /\ now = 0
    /\ started_at = 0
    /\ phase = "none"
    /\ childState = "none"
    /\ exitOk = FALSE
    /\ outOpen = FALSE
    /\ errOpen = FALSE
    /\ pipeOut = <<>>
    /\ pipeErr = <<>>
    /\ written = <<>>
    /\ done = FALSE
    /\ wpc = "idle"
    /\ wres = "none"
    /\ pollWake = 0
    /\ spc = "idle"
    /\ chan = <<>>
    /\ ppc = "idle"
    /\ pingWake = 0
    /\ supPc = "idle"
    /\ logs = <<>>
    /\ last_line = InitLastLine
    /\ start = 0
    /\ last_update = 0
    /\ result = "none"
    /\ dbLogs = <<>>
    /\ canceled = FALSE
    /\ canceledBy = "none"
    /\ last_ping = 0
    /\ cancelAt = -1
    /\ dbFailed = FALSE
    /\ askedKill = FALSE

\* ------------------------------------------------------------------------
\* The child process and the outside world
\* ------------------------------------------------------------------------

\* the child prints a line of n characters on one of its open streams
Child_WriteLen(n) ==
    /\ childState = "running"
    /\ Len(written) < MaxLines
    /\ LET l == Line(Len(written) + 1, n) IN
         /\ written' = Append(written, l)
         /\ \/ outOpen /\ pipeOut' = Append(pipeOut, l) /\ UNCHANGED pipeErr
            \/ errOpen /\ pipeErr' = Append(pipeErr, l) /\ UNCHANGED pipeOut
    /\ UNCHANGED <<now, started_at, phase, childState, exitOk, outOpen, errOpen, done, askedKill,
                   waiterVars, spc, chan, pingerVars, supVars, rowVars, dbFailed>>
    /\ UNCHANGED nonC

Child_Write == \E n \in LineLens : Child_WriteLen(n)

\* a child whose lines are empty or one character long
ShortLens == {0, 1}

Child_WriteShort == \E n \in ShortLens : Child_WriteLen(n)

\* the child closes both of its output streams and goes on running
Child_Close ==
    /\ childState = "running"
    /\ outOpen \/ errOpen
    /\ outOpen' = FALSE
    /\ errOpen' = FALSE
    /\ UNCHANGED <<now, started_at, phase, childState, exitOk, pipeOut, pipeErr, written,
                   done, askedKill, waiterVars, spc, chan, pingerVars, supVars, rowVars, dbFailed>>
    /\ UNCHANGED nonC

Child_Exit ==
    /\ childState = "running"
    /\ childState' = "exited"
    /\ exitOk' \in BOOLEAN
    /\ outOpen' = FALSE
    /\ errOpen' = FALSE
    /\ UNCHANGED <<now, started_at, phase, pipeOut, pipeErr, written,
                   done, askedKill, waiterVars, spc, chan, pingerVars, supVars, rowVars, dbFailed>>
    /\ UNCHANGED nonC

\* a user cancels the job: queue.canceled = true
Ext_Cancel ==
    /\ ~canceled
    /\ supPc # "returned"
    /\ canceled' = TRUE
    /\ canceledBy' = "user"
    /\ cancelAt' = now
    /\ UNCHANGED <<now, started_at, phase, childVars, done, askedKill, waiterVars, spc, chan,
                   pingerVars, supVars, dbLogs, dbFailed>>
    /\ UNCHANGED nonC

\* ------------------------------------------------------------------------
\* T1: the process waiter
\* ------------------------------------------------------------------------

\* r = child.wait() => { inner_done.store(true); Ok(r?) }
W_Exit ==
    /\ wpc = "waiting"
    /\ childState = "exited"
    /\ done' = TRUE
    /\ UNCHANGED askedKill
    /\ wres' = IF exitOk THEN "success" ELSE "failure"
    /\ wpc' = "finished"
    /\ UNCHANGED <<now, started_at, phase, childVars, pollWake, spc, chan, pingerVars,
                   supVars, rowVars, dbFailed>>
    /\ UNCHANGED nonC

\* a poller that kills the child at its first wake-up, whatever done holds
W_PollKillsUnasked ==
    /\ wpc = "waiting"
    /\ now >= pollWake
    /\ childState' = IF childState = "running" THEN "killed" ELSE childState
    /\ outOpen' = FALSE
    /\ errOpen' = FALSE
    /\ wres' = "interrupted"
    /\ wpc' = "finished"
    /\ UNCHANGED pollWake
    /\ UNCHANGED <<now, started_at, phase, exitOk, pipeOut, pipeErr, written, done, askedKill,
                   spc, chan, pingerVars, supVars, rowVars, dbFailed>>
    /\ UNCHANGED nonC

\* while !done2.load() { sleep(1 s) } => { child.kill(); Err("execution interrupted") }
W_Poll ==
    /\ wpc = "waiting"
    /\ now >= pollWake
    /\ IF done
       THEN /\ childState' = IF childState = "running" THEN "killed" ELSE childState
            /\ outOpen' = FALSE
            /\ errOpen' = FALSE
            /\ wres' = "interrupted"
            /\ wpc' = "finished"
            /\ UNCHANGED pollWake
       ELSE /\ pollWake' = now + PollPeriod
            /\ UNCHANGED <<childState, outOpen, errOpen, wres, wpc>>
    /\ UNCHANGED <<now, started_at, phase, exitOk, pipeOut, pipeErr, written, done, askedKill,
                   spc, chan, pingerVars, supVars, rowVars, dbFailed>>
    /\ UNCHANGED nonC

\* ------------------------------------------------------------------------
\* T2: the log streamer
\* ------------------------------------------------------------------------

\* while !done4.load()
S_Check ==
    /\ spc = "check"
    /\ spc' = IF done THEN "exited" ELSE "wait"
    /\ UNCHANGED <<now, started_at, phase, childVars, done, askedKill, waiterVars, chan, pingerVars,
                   supVars, rowVars, dbFailed>>
    /\ UNCHANGED nonC

\* one line read from either pipe and sent; a send after handle_child has returned
\* (rx dropped) fails and the line is discarded
S_Forward(l) ==
    IF Len(l) > MAX_LOG_SIZE
    THEN /\ chan' = IF supPc = "returned" THEN chan ELSE Append(chan, TooBigMsg)
         /\ done' = TRUE
         /\ askedKill' = (askedKill \/ childState = "running")
         /\ spc' = "exited"
    ELSE /\ chan' = IF supPc = "returned" THEN chan ELSE Append(chan, l)
         /\ spc' = "check"
         /\ UNCHANGED <<done, askedKill>>

S_Read ==
    /\ spc = "wait"
    /\ Len(chan) < ChanCap
    /\ \/ /\ pipeOut # <<>>
          /\ S_Forward(Head(pipeOut))
          /\ pipeOut' = Tail(pipeOut)
          /\ UNCHANGED pipeErr
       \/ /\ pipeErr # <<>>
          /\ S_Forward(Head(pipeErr))
          /\ pipeErr' = Tail(pipeErr)
          /\ UNCHANGED pipeOut
    /\ UNCHANGED <<now, started_at, phase, childState, exitOk, outOpen, errOpen, written,
                   waiterVars, pingerVars, supVars, rowVars, dbFailed>>
    /\ UNCHANGED nonC

\* both streams at end of file: else => break
S_Eof ==
    /\ spc = "wait"
    /\ pipeOut = <<>> /\ ~outOpen
    /\ pipeErr = <<>> /\ ~errOpen
    /\ spc' = "exited"
    /\ UNCHANGED <<now, started_at, phase, childVars, done, askedKill, waiterVars, chan, pingerVars,
                   supVars, rowVars, dbFailed>>
    /\ UNCHANGED nonC

\* ------------------------------------------------------------------------
\* T3: the liveness pinger
\* ------------------------------------------------------------------------

\* a pinger that gives up on a failed update
P_PingStopsOnError ==
    /\ ppc = "run"
    /\ now >= pingWake
    /\ IF done
       THEN /\ ppc' = "exited"
            /\ UNCHANGED <<pingWake, last_ping, dbFailed>>
       ELSE \E ok \in BOOLEAN :
                 /\ last_ping' = IF ok THEN now ELSE last_ping
                 /\ dbFailed' = (dbFailed \/ ~ok)
                 /\ pingWake' = now + PingPeriod
                 /\ ppc' = IF ok THEN ppc ELSE "exited"
    /\ UNCHANGED <<now, started_at, phase, childVars, done, askedKill, waiterVars, spc, chan,
                   supVars, rowVars>>
    /\ UNCHANGED nonC

\* while !done3.load() { UPDATE queue SET last_ping = now; sleep(5 s) }
P_Ping ==
    /\ ppc = "run"
    /\ now >= pingWake
    /\ IF done
       THEN /\ ppc' = "exited"
            /\ UNCHANGED <<pingWake, last_ping, dbFailed>>
       ELSE /\ \E ok \in BOOLEAN :
                 /\ last_ping' = IF ok THEN now ELSE last_ping
                 /\ dbFailed' = (dbFailed \/ ~ok)
            /\ pingWake' = now + PingPeriod
            /\ UNCHANGED ppc
    /\ UNCHANGED <<now, started_at, phase, childVars, done, askedKill, waiterVars, spc, chan,
                   supVars, rowVars>>
    /\ UNCHANGED nonC

\* ------------------------------------------------------------------------
\* T4: the supervisor's flush loop
\* ------------------------------------------------------------------------

\* the comparison made with >= instead of >
HasTimeoutNonStrict == (now - started_at) \div 2 >= Timeout

\* (now - started_at).num_seconds() > timeout
HasTimeout == (now - started_at) \div 2 > Timeout

\* a flush that sends the whole of logs again
ToSendAll == logs

\* logs.chars().skip(start)
ToSend == SubSeq(logs, start + 1, Len(logs))

\* while !done.load()
Sup_LoopCheck ==
    /\ supPc = "loop"
    /\ supPc' = IF done THEN "join" ELSE "select"
    /\ UNCHANGED <<now, started_at, phase, childVars, done, askedKill, waiterVars, spc, chan,
                   pingerVars, logs, last_line, start, last_update, result, rowVars,
                   dbFailed>>
    /\ UNCHANGED nonC

\* a tick that gives up on the job when the read of canceled fails
Sup_TickStopsOnFailedRead ==
    /\ supPc = "select"
    /\ now >= last_update + TickPeriod
    /\ \E okFlush \in BOOLEAN, okRead \in BOOLEAN, okUpd \in BOOLEAN :
         /\ dbLogs' = IF start # Len(logs) /\ okFlush THEN dbLogs \o ToSend ELSE dbLogs
         /\ start' = Len(logs)
         /\ done' = (done \/ ~okRead \/ canceled)
         /\ askedKill' = (askedKill \/ ((~okRead \/ canceled) /\ childState = "running"))
         /\ IF HasTimeout /\ okUpd
            THEN canceled' = TRUE /\ canceledBy' = "timeout"
            ELSE UNCHANGED <<canceled, canceledBy>>
         /\ dbFailed' = (dbFailed \/ (start # Len(logs) /\ ~okFlush) \/ ~okRead
                                  \/ (HasTimeout /\ ~okUpd))
    /\ last_update' = now
    /\ supPc' = "loop"
    /\ UNCHANGED <<now, started_at, phase, childVars, waiterVars, spc, chan, pingerVars,
                   logs, last_line, result, cancelAt>>
    /\ UNCHANGED nonC

\* the sleeping_future branch: flush, read of canceled, timeout update
Sup_Tick ==
    /\ supPc = "select"
    /\ now >= last_update + TickPeriod
    /\ \E okFlush \in BOOLEAN, okRead \in BOOLEAN, okUpd \in BOOLEAN :
         /\ dbLogs' = IF start # Len(logs) /\ okFlush THEN dbLogs \o ToSend ELSE dbLogs
         /\ start' = Len(logs)
         /\ done' = (done \/ (okRead /\ canceled))
         /\ askedKill' = (askedKill \/ (okRead /\ canceled /\ childState = "running"))
         /\ IF HasTimeout /\ okUpd
            THEN canceled' = TRUE /\ canceledBy' = "timeout"
            ELSE UNCHANGED <<canceled, canceledBy>>
         /\ dbFailed' = (dbFailed \/ (start # Len(logs) /\ ~okFlush) \/ ~okRead
                                  \/ (HasTimeout /\ ~okUpd))
    /\ last_update' = now
    /\ supPc' = "loop"
    /\ UNCHANGED <<now, started_at, phase, childVars, waiterVars, spc, chan, pingerVars,
                   logs, last_line, result, cancelAt>>
    /\ UNCHANGED nonC

\* nl = rx.recv(), Some(nl)
Sup_Recv ==
    /\ supPc = "select"
    /\ chan # <<>>
    /\ LET nl == Head(chan)
           over == Len(logs) > MAX_LOG_SIZE
       IN /\ logs' = (IF over THEN logs \o TooManyMsg ELSE logs) \o <<"\n">> \o nl
          /\ done' = (done \/ over)
          /\ askedKill' = (askedKill \/ (over /\ childState = "running"))
          /\ last_line' = nl
    /\ chan' = Tail(chan)
    /\ supPc' = "loop"
    /\ UNCHANGED <<now, started_at, phase, childVars, waiterVars, spc, pingerVars,
                   start, last_update, result, rowVars, dbFailed>>
    /\ UNCHANGED nonC

\* nl = rx.recv(), None: the streamer has dropped tx; last flush, break
Sup_RecvNone ==
    /\ supPc = "select"
    /\ chan = <<>>
    /\ spc = "exited"
    /\ \E ok \in BOOLEAN :
         /\ dbLogs' = IF ok THEN dbLogs \o ToSend ELSE dbLogs
         /\ dbFailed' = (dbFailed \/ ~ok)
    /\ supPc' = "join"
    /\ UNCHANGED <<now, started_at, phase, childVars, done, askedKill, waiterVars, spc, chan,
                   pingerVars, logs, last_line, start, last_update, result, canceled,
                   canceledBy, cancelAt>>
    /\ UNCHANGED nonC

\* handle.await
Sup_Join ==
    /\ supPc = "join"
    /\ wpc = "finished"
    /\ result' = wres
    /\ supPc' = "returned"
    /\ UNCHANGED <<now, started_at, phase, childVars, done, askedKill, waiterVars, spc, chan,
                   pingerVars, logs, last_line, start, last_update, rowVars, dbFailed>>
    /\ UNCHANGED nonC

\* handle_nondep_job after the install child: if status.is_ok(), the marker is pushed
\* and set_logs stores the whole of logs
Py_SetLogs ==
    /\ supPc = "returned"
    /\ phase = "install"
    /\ Py_InstallOk(result)
    /\ logs' = logs \o ExecMarker
    /\ \E ok \in BOOLEAN :
         /\ dbLogs' = IF ok THEN logs' ELSE dbLogs
         /\ dbFailed' = (dbFailed \/ ~ok)
    /\ phase' = "exec_prep"
    /\ UNCHANGED <<now, started_at, childVars, done, askedKill, waiterVars, spc, chan, pingerVars,
                   supPc, last_line, start, last_update, result, canceled, canceledBy,
                   cancelAt>>
    /\ UNCHANGED nonC

\* ------------------------------------------------------------------------
\* Lease protocol: pull, pinger, completion, zombie reaper
\* ------------------------------------------------------------------------

L_Init ==
    /\ clock = 0
    /\ present = [j \in Rows |-> TRUE]
    /\ running = [j \in Rows |-> FALSE]
    /\ q_last_ping = [j \in Rows |-> 0]
    /\ holder = [w \in Workers |-> 0]
    /\ wphase = [w \in Workers |-> "idle"]
    /\ pingAt = [w \in Workers |-> 0]
    /\ reapWake \in 0..MaxClock
    /\ rpc = "select"
    /\ l_killpill = FALSE
    /\ lapsed = [w \in Workers |-> FALSE]

\* no queue: the lease protocol while another part is studied on its own
L_Idle ==
    /\ clock = 0
    /\ present = [j \in Rows |-> FALSE]
    /\ running = [j \in Rows |-> FALSE]
    /\ q_last_ping = [j \in Rows |-> 0]
    /\ holder = [w \in Workers |-> 0]
    /\ wphase = [w \in Workers |-> "stopped"]
    /\ pingAt = [w \in Workers |-> 0]
    /\ reapWake = 0
    /\ rpc = "stopped"
    /\ l_killpill = FALSE
    /\ lapsed = [w \in Workers |-> FALSE]

\* pull: a row that is not running is leased, running = true, last_ping = now
Pull(w) ==
    /\ wphase[w] = "idle"
    /\ \E j \in Rows :
         /\ present[j] /\ ~running[j]
         /\ running' = [running EXCEPT ![j] = TRUE]
         /\ q_last_ping' = [q_last_ping EXCEPT ![j] = clock]
         /\ holder' = [holder EXCEPT ![w] = j]
    /\ wphase' = [wphase EXCEPT ![w] = "setup"]
    /\ lapsed' = [lapsed EXCEPT ![w] = FALSE]
    /\ UNCHANGED <<clock, present, pingAt, reaperVars>>
    /\ UNCHANGED nonL

\* the runner reaches handle_child, which spawns the pinger
L_StartChild(w) ==
    /\ wphase[w] = "setup"
    /\ wphase' = [wphase EXCEPT ![w] = "child"]
    /\ pingAt' = [pingAt EXCEPT ![w] = clock]
    /\ UNCHANGED <<clock, present, running, q_last_ping, holder, reaperVars, lapsed>>
    /\ UNCHANGED nonL

\* UPDATE queue SET last_ping = now WHERE id = $2; an error is logged; sleep 5 s
L_Ping(w) ==
    /\ wphase[w] = "child"
    /\ clock >= pingAt[w]
    /\ \E ok \in BOOLEAN :
         q_last_ping' = IF ok /\ present[holder[w]]
                        THEN [q_last_ping EXCEPT ![holder[w]] = clock]
                        ELSE q_last_ping
    /\ pingAt' = [pingAt EXCEPT ![w] = clock + PingSecs]
    /\ UNCHANGED <<clock, present, running, holder, wphase, reaperVars, lapsed>>
    /\ UNCHANGED nonL

\* handle_child returns: done is set and the pinger stops
L_ChildDone(w) ==
    /\ wphase[w] = "child"
    /\ wphase' = [wphase EXCEPT ![w] = "finish"]
    /\ UNCHANGED <<clock, present, running, q_last_ping, holder, pingAt, reaperVars, lapsed>>
    /\ UNCHANGED nonL

\* add_completed_job / add_completed_job_error: the row leaves the queue
L_Complete(w) ==
    /\ wphase[w] = "finish"
    /\ present' = [present EXCEPT ![holder[w]] = FALSE]
    /\ holder' = [holder EXCEPT ![w] = 0]
    /\ wphase' = [wphase EXCEPT ![w] = "idle"]
    /\ UNCHANGED <<clock, running, q_last_ping, pingAt, reaperVars, lapsed>>
    /\ UNCHANGED nonL

\* the reaper's query with the factor 5 left out
StaleRowNoFactor(j) == present[j] /\ running[j] /\ q_last_ping[j] < clock - Timeout

\* WHERE last_ping < now - timeout * 5 and running = true
StaleRow(j) == present[j] /\ running[j] /\ q_last_ping[j] < clock - Timeout * StaleFactor

\* a pass that also rewrites last_ping on the rows it restarts
ReapTouchesPing ==
    /\ rpc = "pass"
    /\ \E ok \in BOOLEAN :
         /\ running' = IF ok
                       THEN [j \in Rows |-> IF StaleRow(j) THEN FALSE ELSE running[j]]
                       ELSE running
         /\ q_last_ping' = IF ok
                           THEN [j \in Rows |-> IF StaleRow(j) THEN clock ELSE q_last_ping[j]]
                           ELSE q_last_ping
    /\ reapWake' = clock + ReapSecs
    /\ rpc' = "select"
    /\ UNCHANGED <<clock, present, holder, wphase, pingAt, l_killpill, lapsed>>
    /\ UNCHANGED nonL

\* one pass of restart_zombie_jobs_periodically; a failed query restarts nothing;
\* then the select on sleep(60 s) and rx.recv() begins
Reap ==
    /\ rpc = "pass"
    /\ \E ok \in BOOLEAN :
         running' = IF ok
                    THEN [j \in Rows |-> IF StaleRow(j) THEN FALSE ELSE running[j]]
                    ELSE running
    /\ reapWake' = clock + ReapSecs
    /\ rpc' = "select"
    /\ UNCHANGED <<clock, present, q_last_ping, holder, wphase, pingAt, l_killpill, lapsed>>
    /\ UNCHANGED nonL

\* select: the sleep has ended, the loop goes round
R_Wake ==
    /\ rpc = "select"
    /\ clock >= reapWake
    /\ rpc' = "pass"
    /\ UNCHANGED <<clock, present, running, q_last_ping, holder, wphase, pingAt,
                   reapWake, l_killpill, lapsed>>
    /\ UNCHANGED nonL

\* select: rx.recv() => break
R_Stop ==
    /\ rpc = "select"
    /\ l_killpill
    /\ rpc' = "stopped"
    /\ UNCHANGED <<clock, present, running, q_last_ping, holder, wphase, pingAt,
                   reapWake, l_killpill, lapsed>>
    /\ UNCHANGED nonL

\* environment: the shutdown signal is broadcast
L_Shutdown ==
    /\ ~l_killpill
    /\ l_killpill' = TRUE
    /\ UNCHANGED <<clock, present, running, q_last_ping, holder, wphase, pingAt,
                   reapWake, rpc, lapsed>>
    /\ UNCHANGED nonL

\* the reaper has a step to take now
R_Prog == Reap \/ R_Wake \/ R_Stop

\* a second passes, once every pinger that is due and the reaper have run
L_Advance ==
    /\ clock < MaxClock
    /\ ~ENABLED R_Prog
    /\ \A w \in Workers : wphase[w] = "child" => clock < pingAt[w]
    /\ clock' = clock + 1
    /\ lapsed' = [w \in Workers |->
                    lapsed[w] \/ (/\ holder[w] # 0
                                  /\ q_last_ping[holder[w]] < clock' - 5 * Timeout)]
    /\ UNCHANGED <<present, running, q_last_ping, holder, wphase, pingAt, reaperVars>>
    /\ UNCHANGED nonL

\* ------------------------------------------------------------------------
\* Argument resolution: transform_json_value
\* ------------------------------------------------------------------------

T_Init ==
    /\ tj_pc = "start"
    /\ tj_in \in ArgValues
    /\ tj_out = Null
    /\ tj_out2 = Null
    /\ variable \in VarAnswers
    /\ resource \in ResAnswers
    /\ tj_cur = Null
    /\ tj_stack = <<>>

\* no value to resolve: the resolver while another part is studied on its own
T_Idle ==
    /\ tj_pc = "idle"
    /\ tj_in = Null
    /\ tj_out = Null
    /\ tj_out2 = Null
    /\ variable = [ok |-> FALSE, val |-> <<>>]
    /\ resource = [kind |-> "err", val |-> Null]
    /\ tj_cur = Null
    /\ tj_stack = <<>>

\* y contains prefix somewhere
Contains(y, prefix) == \E i \in DOMAIN y : y[i] = prefix

\* y.starts_with(prefix)
StartsWith(y, prefix) == Len(y) >= 1 /\ y[1] = prefix

\* y.strip_prefix(prefix).unwrap()
StripPrefix(y) == Tail(y)

\* path.split("/").count()
SplitCount(path) == 1 + Cardinality({i \in DOMAIN path : path[i] = "/"})

\* the test with the bound off by one
IllDefinedOffByOne(path) == SplitCount(path) < 3

\* path.split("/").count() < 2
IllDefined(path) == SplitCount(path) < 2

\* get_variable(..).unwrap_or_else(|_| format!("error fetching variable {path}"))
GetVariable(path) ==
    IF path = VarPath /\ variable.ok
    THEN variable.val
    ELSE <<"error fetching variable ">> \o path

\* get_resource(..).ok().flatten().unwrap_or_else(|| Value::String(format!(..)))
GetResource(path) ==
    IF path = ResPath /\ resource.kind = "some"
    THEN resource.val
    ELSE Str(<<"error fetching resource ">> \o path)

RECURSIVE transform_json_value(_)
transform_json_value(v) ==
    IF v.t = "str" /\ StartsWith(v.v, "$var:")
    THEN Str(GetVariable(StripPrefix(v.v)))
    ELSE IF v.t = "str" /\ StartsWith(v.v, "$res:")
    THEN IF IllDefined(StripPrefix(v.v))
         THEN Str(<<"resource path: ">> \o StripPrefix(v.v) \o <<" is ill-defined">>)
         ELSE transform_json_value(GetResource(StripPrefix(v.v)))
    ELSE IF v.t = "obj"
    THEN Obj([k \in DOMAIN v.v |-> transform_json_value(v.v[k])])
    ELSE v

T_Resolve ==
    /\ tj_pc = "start"
    /\ tj_out' = transform_json_value(tj_in)
    /\ tj_pc' = "once"
    /\ UNCHANGED <<tj_in, tj_out2, variable, resource, tj_cur, tj_stack>>
    /\ UNCHANGED nonT

\* the result handed to the resolver again
T_ResolveAgain ==
    /\ tj_pc = "once"
    /\ tj_out2' = transform_json_value(tj_out)
    /\ tj_pc' = "twice"
    /\ UNCHANGED <<tj_in, tj_out, variable, resource, tj_cur, tj_stack>>
    /\ UNCHANGED nonT

T_Next == T_Resolve \/ T_ResolveAgain

\* transform_json_value followed call by call: tj_cur is the argument v of the
\* innermost call, tj_stack the calls that await it, innermost last

\* the argument as handle_nondep_job hands it over, and any content of the store
TS_Init ==
    /\ tj_pc = "call"
    /\ tj_in \in ArgValues
    /\ tj_cur = tj_in
    /\ tj_stack = <<>>
    /\ tj_out = Null
    /\ tj_out2 = Null
    /\ variable \in VarAnswers
    /\ resource \in AllResAnswers

IsVarRef(v) == v.t = "str" /\ StartsWith(v.v, "$var:")
IsResRef(v) == v.t = "str" /\ ~StartsWith(v.v, "$var:") /\ StartsWith(v.v, "$res:")
IsFetch(v) == IsResRef(v) /\ ~IllDefined(StripPrefix(v.v))
IsWalk(v) == v.t = "obj" /\ DOMAIN v.v # {}

\* the key the loop over m.clone() is at
NextKey(todo) == CHOOSE k \in todo : TRUE

\* the arms that return without an inner call: a variable, an ill-defined resource
\* path, an empty object, a @ _ => a
TS_Leaf ==
    /\ tj_pc = "call"
    /\ ~IsFetch(tj_cur)
    /\ ~IsWalk(tj_cur)
    /\ tj_cur' = IF IsVarRef(tj_cur)
                  THEN Str(GetVariable(StripPrefix(tj_cur.v)))
                  ELSE IF IsResRef(tj_cur)
                  THEN Str(<<"resource path: ">> \o StripPrefix(tj_cur.v)
                               \o <<" is ill-defined">>)
                  ELSE tj_cur
    /\ tj_pc' = "ret"
    /\ UNCHANGED <<tj_in, tj_out, tj_out2, variable, resource, tj_stack>>
    /\ UNCHANGED nonT

\* get_resource(..), then transform_json_value(.., v).await on what it answered
TS_Fetch ==
    /\ tj_pc = "call"
    /\ IsFetch(tj_cur)
    /\ Len(tj_stack) < MaxDepth
    /\ tj_stack' = Append(tj_stack, [tag |-> "res", m |-> <<>>, todo |-> {}])
    /\ tj_cur' = GetResource(StripPrefix(tj_cur.v))
    /\ UNCHANGED <<tj_pc, tj_in, tj_out, tj_out2, variable, resource>>
    /\ UNCHANGED nonT

\* Value::Object(m): the first entry of m.clone() is transformed
TS_Walk ==
    /\ tj_pc = "call"
    /\ IsWalk(tj_cur)
    /\ Len(tj_stack) < MaxDepth
    /\ tj_stack' = Append(tj_stack, [tag |-> "obj", m |-> tj_cur.v, todo |-> DOMAIN tj_cur.v])
    /\ tj_cur' = tj_cur.v[NextKey(DOMAIN tj_cur.v)]
    /\ UNCHANGED <<tj_pc, tj_in, tj_out, tj_out2, variable, resource>>
    /\ UNCHANGED nonT

\* an inner call returns: the resource arm returns its value as it is, the object
\* arm inserts it and goes on to the next entry or returns Value::Object(m)
TS_Return ==
    /\ tj_pc = "ret"
    /\ tj_stack # <<>>
    /\ LET top == tj_stack[Len(tj_stack)]
           rest == SubSeq(tj_stack, 1, Len(tj_stack) - 1)
           k == NextKey(top.todo)
           m2 == [top.m EXCEPT ![k] = tj_cur]
           todo2 == top.todo \ {k}
       IN IF top.tag = "res"
          THEN /\ tj_stack' = rest
               /\ UNCHANGED <<tj_cur, tj_pc>>
          ELSE IF todo2 = {}
          THEN /\ tj_stack' = rest
               /\ tj_cur' = Obj(m2)
               /\ UNCHANGED tj_pc
          ELSE /\ tj_stack' = Append(rest, [tag |-> "obj", m |-> m2, todo |-> todo2])
               /\ tj_cur' = m2[NextKey(todo2)]
               /\ tj_pc' = "call"
    /\ UNCHANGED <<tj_in, tj_out, tj_out2, variable, resource>>
    /\ UNCHANGED nonT

\* the outermost call returns
TS_Finish ==
    /\ tj_pc = "ret"
    /\ tj_stack = <<>>
    /\ tj_out' = tj_cur
    /\ tj_pc' = "finished"
    /\ UNCHANGED <<tj_in, tj_out2, variable, resource, tj_cur, tj_stack>>
    /\ UNCHANGED nonT

TS_Next == TS_Leaf \/ TS_Fetch \/ TS_Walk \/ TS_Return \/ TS_Finish

\* ------------------------------------------------------------------------
\* Child supervisor: specification
\* ------------------------------------------------------------------------

\* the steps of the worker's own tasks; they take no time
C_Prog ==
    \/ W_Exit \/ W_Poll
    \/ S_Check \/ S_Read \/ S_Eof
    \/ P_Ping
    \/ Sup_LoopCheck \/ Sup_Tick \/ Sup_Recv \/ Sup_RecvNone \/ Sup_Join
    \/ Py_SetLogs

\* time passes when no task of the worker has a step to take
Advance ==
    /\ now < MaxTime
    /\ ~ENABLED C_Prog
    /\ now' = now + 1
    /\ UNCHANGED <<started_at, phase, childVars, done, askedKill, waiterVars, spc, chan, pingerVars,
                   supVars, rowVars, dbFailed>>
    /\ UNCHANGED nonC

C_Next ==
    \/ Child_Write \/ Child_Close \/ Child_Exit \/ Ext_Cancel
    \/ W_Exit \/ W_Poll
    \/ S_Check \/ S_Read \/ S_Eof
    \/ P_Ping
    \/ Sup_LoopCheck \/ Sup_Tick \/ Sup_Recv \/ Sup_RecvNone \/ Sup_Join
    \/ Py_SetLogs
    \/ Advance

ChildInit == C_Init /\ D_Idle /\ L_Idle /\ T_Idle

SpecChild == ChildInit /\ [][C_Next]_vars

\* the tasks of handle_child watched past the pinger's second period, for a child
\* that prints nothing: it may close its streams, exit, be cancelled or time out,
\* and every database call may fail
MaxPingTime == 11

AdvanceLong ==
    /\ now < MaxPingTime
    /\ ~ENABLED C_Prog
    /\ now' = now + 1
    /\ UNCHANGED <<started_at, phase, childVars, done, askedKill, waiterVars, spc, chan, pingerVars,
                   supVars, rowVars, dbFailed>>
    /\ UNCHANGED nonC

PingNext ==
    \/ Child_Close \/ Child_Exit \/ Ext_Cancel
    \/ W_Exit \/ W_Poll
    \/ S_Check \/ S_Eof
    \/ P_Ping
    \/ Sup_LoopCheck \/ Sup_Tick \/ Sup_RecvNone \/ Sup_Join
    \/ Py_SetLogs
    \/ AdvanceLong

SpecPing == ChildInit /\ [][PingNext]_vars

\* handle_child with a child that prints short lines, some of them empty, so that
\* two lines fit under the cap and are flushed one after the other
FlushNext ==
    \/ Child_WriteShort \/ Child_Close \/ Child_Exit \/ Ext_Cancel
    \/ W_Exit \/ W_Poll
    \/ S_Check \/ S_Read \/ S_Eof
    \/ P_Ping
    \/ Sup_LoopCheck \/ Sup_Tick \/ Sup_Recv \/ Sup_RecvNone \/ Sup_Join
    \/ Py_SetLogs
    \/ Advance

SpecFlush == ChildInit /\ [][FlushNext]_vars

\* ------------------------------------------------------------------------
\* Dispatcher: specification
\* ------------------------------------------------------------------------

D_Next ==
    \/ D_LoopTop \/ D_PullSome \/ D_PullNone
    \/ HQ_Flow \/ HQ_Start
    \/ HJ_CreateDir
    \/ Dep_Prepare \/ Dep_Child \/ Dep_Record
    \/ ND_Resolve \/ ND_Language
    \/ Py_InstallPrep \/ Py_InstallChild \/ Py_ExecPrep \/ Py_ExecChild
    \/ Deno_Prep \/ Deno_Child
    \/ HJ_RemoveDir \/ HJ_Result
    \/ HQ_Complete \/ HQ_FlowUpdate \/ HQ_Postprocess
    \/ D_ErrRecord \/ D_ErrPostprocess \/ D_ErrFlow \/ D_ErrParent
    \/ D_SelectSleep \/ D_SelectKillpill
    \/ Shutdown

DispatchInit == D_Init /\ C_Idle /\ L_Idle /\ T_Idle

SpecDispatch == DispatchInit /\ [][D_Next]_vars

L_Next ==
    \/ \E w \in Workers : Pull(w)
    \/ \E w \in Workers : L_StartChild(w)
    \/ \E w \in Workers : L_Ping(w)
    \/ \E w \in Workers : L_ChildDone(w)
    \/ \E w \in Workers : L_Complete(w)
    \/ Reap
    \/ R_Wake
    \/ R_Stop
    \/ L_Shutdown
    \/ L_Advance

LeaseInit == L_Init /\ D_Idle /\ C_Idle /\ T_Idle

SpecLease == LeaseInit /\ [][L_Next]_vars

ResolveInit == T_Init /\ D_Idle /\ C_Idle /\ L_Idle

SpecResolve == ResolveInit /\ [][T_Next]_vars

ResolveStepsInit == TS_Init /\ D_Idle /\ C_Idle /\ L_Idle

\* the call is awaited by handle_nondep_job, so it is run as long as it has a step
SpecResolveSteps == ResolveStepsInit /\ [][TS_Next]_vars /\ WF_vars(TS_Next)

\* ------------------------------------------------------------------------
\* Claims about the dispatcher (SpecDispatch)
\* ------------------------------------------------------------------------

\* calls of the functions fs made for the leased job itself since its pull
NCalls(fs) ==
    Cardinality({i \in DOMAIN calls : calls[i].on = "job" /\ calls[i].f \in fs})

\* the dispatcher has finished with the leased job and is about to loop
JobHandled == dpc = "select" /\ job # NoJob

\* C1: for every leased job, between its pull and the dispatcher's next iteration,
\* add_completed_job and add_completed_job_error are called exactly once in total.
\* Stated for the kinds the language runners execute (a Flow or FlowPreview job is
\* handed to handle_flow, which records nothing here when it succeeds).
C1_ExactlyOneCompletionCall ==
    (JobHandled /\ job.kind \notin FlowKinds)
        => NCalls({"add_completed_job", "add_completed_job_error"}) = 1

\* C5: for every leased flow step with a parent job,
\* update_flow_status_after_job_completion is called exactly once, whether or not
\* the call fails. Stated for the kinds the language runners execute.
C5_ExactlyOneFlowUpdate ==
    (JobHandled /\ job.kind \notin FlowKinds /\ job.is_flow_step /\ job.has_parent)
        => NCalls({"update_flow_status_after_job_completion"}) = 1

\* C7: when handle_job has returned (a result or an error) for a non-flow job, the
\* scratch directory does not exist, unless remove_dir_all itself failed.
C7_ScratchDirRemoved ==
    (dpc = "hq_complete" /\ errCause # "remove_dir") => jobDir = "absent"

\* the failures C8 lists
C8_Causes ==
    {"user_code", "missing_script", "missing_lockfile", "null_language",
     "create_dir", "fill_dir"}

\* C8: a leased job failing for one of the listed reasons never terminates the
\* dispatcher task, and by the time the dispatcher loops add_completed_job_error
\* has been called for it.
C8_FailureNeverStopsDispatcher ==
    errCause \in C8_Causes
        => /\ dpc # "panicked"
           /\ JobHandled => NCalls({"add_completed_job_error"}) >= 1

\* ------------------------------------------------------------------------
\* Claims about the child supervisor (SpecChild)
\* ------------------------------------------------------------------------

IsPrefix(a, b) == Len(a) <= Len(b) /\ SubSeq(b, 1, Len(a)) = a

\* C2: when handle_child returns a success status, last_line is the last line the
\* child wrote.
C2_LastLineIsFinalLine ==
    (supPc = "returned" /\ result = "success" /\ written # <<>>)
        => last_line = written[Len(written)]

\* C3: a child running past the timeout is eventually canceled with
\* canceled_by = 'timeout' and killed, whatever the child does with its streams.
\* The timeout update is issued only by the flush loop and the kill only once done
\* is set, so the claim needs this of every reachable state: while the child runs
\* past the timeout, not yet canceled by it and with done unset, the supervisor is
\* still in its flush loop. From a state where it is not, a child that keeps
\* running is never canceled and never killed.
C3_TimeoutStillEnforced ==
    (childState = "running" /\ HasTimeout /\ ~done /\ canceledBy # "timeout")
        => supPc \in {"loop", "select"}

\* C4: once canceled is set from outside while the child runs, the child is killed
\* within one flush period (500 ms; every step of the worker's tasks taking no
\* time). Stated for runs in which no database call fails and the child writes
\* nothing and keeps its streams open.
C4_KilledWithinOneTick ==
    (childState = "running" /\ cancelAt >= 0 /\ ~dbFailed /\ outOpen /\ errOpen
        /\ written = <<>>)
        => now - cancelAt <= TickPeriod

\* C9: every write to queue.logs leaves the previous value as a prefix of the new.
C9_RowLogsAppendOnly == [][IsPrefix(dbLogs, dbLogs')]_vars

\* C10: during handle_child the in-memory logs only grow; once they are longer than
\* MAX_LOG_SIZE the supervisor appends at most the terminal message; and on return
\* they are no longer than MAX_LOG_SIZE plus the terminal message and its newline.
C10_LogsBounded ==
    [][supPc # "returned" =>
        /\ IsPrefix(logs, logs')
        /\ Len(logs) > MAX_LOG_SIZE => Len(logs') <= Len(logs) + Len(TooManyMsg)
        /\ supPc' = "returned" => Len(logs') <= MAX_LOG_SIZE + Len(TooManyMsg) + 1]_vars

\* ------------------------------------------------------------------------
\* Claims about the lease protocol (SpecLease)
\* ------------------------------------------------------------------------

\* C6, as stated: no row is handled by two dispatchers at once.
C6_NeverTwoHolders ==
    \A w1 \in Workers, w2 \in Workers :
        (w1 # w2 /\ holder[w1] # 0) => holder[w1] # holder[w2]

\* C6, amended: as long as the last_ping of the row a dispatcher is handling has
\* never been more than 5 * timeout behind the clock since it leased the row, the
\* row stays running, and any other dispatcher handling the same row is one whose
\* own lease has so lapsed.
C6_LeaseHeldWhilePinged ==
    \A w \in Workers :
        (holder[w] # 0 /\ ~lapsed[w])
            => /\ present[holder[w]] => running[holder[w]]
               /\ \A w2 \in Workers :
                    (w2 # w /\ holder[w2] = holder[w]) => lapsed[w2]

\* a dispatcher still holds its row, never lapsed, after the reaper has made a pass
\* later than 5 * timeout after the lease began
C6_Witness ==
    \E w \in Workers :
        /\ holder[w] # 0
        /\ ~lapsed[w]
        /\ wphase[w] = "child"
        /\ clock > 5 * Timeout
        /\ reapWake > clock
        /\ reapWake - ReapSecs > 5 * Timeout

\* C18: the execution phase of a Python job (inner.py, token, interpreter) is
\* entered only after an install child that exited with a success status.
C18_ExecOnlyAfterInstallSuccess ==
    dpc \in {"py_exec_prep", "py_exec_child"} => status = "success"

\* ------------------------------------------------------------------------
\* Further claims about the child supervisor (SpecChild)
\* ------------------------------------------------------------------------

\* t occurs in s
HasText(s, t) == \E i \in 0..(Len(s) - Len(t)) : SubSeq(s, i + 1, i + Len(t)) = t

InPipe(l) ==
    \/ \E i \in DOMAIN pipeOut : pipeOut[i] = l
    \/ \E i \in DOMAIN pipeErr : pipeErr[i] = l

\* the streamer has read a line longer than MAX_LOG_SIZE
BigLineRead ==
    \E k \in DOMAIN written : Len(written[k]) > MAX_LOG_SIZE /\ ~InPipe(written[k])

\* C11: once the streamer has read a line longer than MAX_LOG_SIZE, handle_child
\* returns interrupted and the logs contain "Line is too big".
C11_BigLineInterrupts ==
    (supPc = "returned" /\ BigLineRead)
        => /\ result = "interrupted"
           /\ HasText(logs, TooBigMsg)

\* ------------------------------------------------------------------------
\* Further claims about the dispatcher (SpecDispatch)
\* ------------------------------------------------------------------------

\* C12: the dispatcher is out of its loop only after the shutdown signal has been
\* broadcast (the panic on a failed scratch directory creation is set aside).
C12_LeavesLoopOnlyOnSignal ==
    (dpc \in {"stopped", "panicked"} /\ errCause # "create_dir") => killpill

\* the dispatcher is inside handle_queued_job or the error escalation of its job
InHandling == dpc \notin {"loop_top", "pull", "select", "stopped", "panicked"}

\* C13: a job is leased (pull returns Some and jobs_executed is incremented) only
\* from the pull statement of the loop, never while handle_queued_job or the error
\* escalation of the job leased before is still running.
C13_PullOnlyBetweenJobs ==
    [][jobs_executed' # jobs_executed => (dpc = "pull" /\ ~InHandling)]_vars

\* a second job has just been leased, after the first one was handled
C13_Witness == jobs_executed = 2 /\ dpc = "hq_start" /\ job # NoJob

\* ------------------------------------------------------------------------
\* Further claims about the lease protocol (SpecLease)
\* ------------------------------------------------------------------------

\* a row the documented query selects: running and last pinged more than
\* 5 * timeout ago
ZombieRow(j) == present[j] /\ running[j] /\ q_last_ping[j] < clock - 5 * Timeout

\* C14: a reaper pass leaves the set of rows and every column but running as they
\* were, and sets running to false on exactly the rows that are running with
\* last_ping < now - 5 * timeout (on none when its query fails); a reaper that has
\* stopped stays stopped and stops only on the shutdown signal; and no time passes
\* while the signal is pending for a reaper waiting in its select.
C14_ReaperFrame ==
    /\ [][(rpc = "pass" /\ rpc' # rpc) =>
            /\ present' = present
            /\ q_last_ping' = q_last_ping
            /\ holder' = holder
            /\ \/ running' = [j \in Rows |-> running[j] /\ ~ZombieRow(j)]
               \/ running' = running]_vars
    /\ [][rpc' = "stopped" => (rpc = "stopped" \/ l_killpill)]_vars
    /\ [][rpc = "stopped" => rpc' = "stopped"]_vars
    /\ [][(rpc = "select" /\ l_killpill) => clock' = clock]_vars

\* a pass has just restarted the zombie row of a dispatcher that is still handling it
C14_Witness ==
    /\ rpc = "select"
    /\ reapWake = clock + ReapSecs
    /\ \E j \in Rows : present[j] /\ ~running[j] /\ q_last_ping[j] < clock - 5 * Timeout
    /\ \E w \in Workers : holder[w] # 0 /\ lapsed[w]

\* ------------------------------------------------------------------------
\* Claims about argument resolution (SpecResolve)
\* ------------------------------------------------------------------------

\* y begins with "$var:" or "$res:"
IsPlaceholder(y) == y # <<>> /\ Head(y) \in {"$var:", "$res:"}

\* C15: resolution returns its input unchanged when it is neither a string nor an
\* object, and when it is a string that begins with neither "$var:" nor "$res:";
\* an object comes back as an object with the same keys, each member resolved.
C15_IdentityOffPlaceholders ==
    tj_pc # "start" =>
        /\ tj_in.t \notin {"str", "obj"} => tj_out = tj_in
        /\ (tj_in.t = "str" /\ ~IsPlaceholder(tj_in.v)) => tj_out = tj_in
        /\ tj_in.t = "obj" =>
             /\ tj_out.t = "obj"
             /\ DOMAIN tj_out.v = DOMAIN tj_in.v
             /\ \A k \in DOMAIN tj_in.v : tj_out.v[k] = transform_json_value(tj_in.v[k])

\* an array holding a placeholder has been resolved, and a string with a
\* placeholder prefix in its middle
C15_Witness ==
    /\ tj_pc = "once"
    /\ \/ tj_in = Arr(<<Str(<<"$var:", "a">>)>>)
       \/ tj_in = Str(<<"a", "$var:", "a">>)
    /\ tj_out = tj_in

\* no string anywhere in x begins with "$var:" or "$res:"
RECURSIVE NoPlaceholders(_)
NoPlaceholders(x) ==
    IF x.t = "str" THEN ~IsPlaceholder(x.v)
    ELSE IF x.t = "arr" THEN \A i \in DOMAIN x.v : NoPlaceholders(x.v[i])
    ELSE IF x.t = "obj" THEN \A k \in DOMAIN x.v : NoPlaceholders(x.v[k])
    ELSE TRUE

\* the input is "$res:<path>", the path has two segments or more and the service
\* answers with a value free of placeholders
ResolvesPlainResource ==
    /\ tj_in.t = "str"
    /\ tj_in.v # <<>>
    /\ Head(tj_in.v) = "$res:"
    /\ Cardinality({i \in DOMAIN Tail(tj_in.v) : Tail(tj_in.v)[i] = "/"}) >= 1
    /\ Tail(tj_in.v) = ResPath
    /\ resource.kind = "some"
    /\ NoPlaceholders(resource.val)

\* C16: resolving "$res:<path>", path of two segments or more, for a resource value
\* without placeholders, returns that value, and resolving the result again
\* returns it unchanged.
C16_ResourceIdempotent ==
    ResolvesPlainResource =>
        /\ tj_pc # "start" => tj_out = resource.val
        /\ tj_pc = "twice" => tj_out2 = tj_out

\* an object resource has been fetched and resolved twice
C16_Witness ==
    /\ ResolvesPlainResource
    /\ tj_pc = "twice"
    /\ resource.val = Obj([k \in {"k"} |-> Str(<<"a">>)])
    /\ tj_out2 = resource.val

\* ------------------------------------------------------------------------
\* Claims about the outcome of a supervised child (SpecChild)
\* ------------------------------------------------------------------------

\* C17: when done has been stored while the child was running, on a cancel read
\* from the row, a log overflow or a line that is too big, handle_child does not
\* return a success exit status.
C17_AskedKillNeverSuccess ==
    (supPc = "returned" /\ askedKill) => result # "success"

\* C19: a receive from the log channel made when logs already exceed MAX_LOG_SIZE
\* appends the terminal message and nothing else, and leaves last_line as it was.
C19_OverflowRecvAppendsOnlyTerminal ==
    [][(supPc = "select" /\ chan # <<>> /\ chan' = Tail(chan) /\ Len(logs) > MAX_LOG_SIZE)
          => /\ logs' = logs \o TooManyMsg
             /\ last_line' = last_line
             /\ done']_vars

\* a step of the flush tick: the supervisor leaves its select without a receive
TickStep == supPc = "select" /\ supPc' = "loop" /\ chan' = chan

\* C20: canceled_by becomes 'timeout' only when the time since started_at is
\* strictly more than the timeout (2 * Timeout half seconds), and a flush tick
\* stores done only if canceled was already true in the row when it began, so the
\* tick that writes the timeout never stores done for it.
C20_TimeoutStrictAndIndirect ==
    /\ [][(canceledBy' = "timeout" /\ canceledBy # "timeout")
            => (TickStep /\ now - started_at > 2 * Timeout)]_vars
    /\ [][(TickStep /\ ~done /\ done') => canceled]_vars

\* the timeout was written and, with no cancel from outside, a later tick has
\* stored done while the child was running
C20_Witness ==
    /\ canceledBy = "timeout"
    /\ cancelAt = -1
    /\ askedKill
    /\ written = <<>>
    /\ now > last_update

\* ------------------------------------------------------------------------
\* Claims about the dispatcher's error escalation (SpecDispatch)
\* ------------------------------------------------------------------------

\* positions in calls of the error record the dispatcher writes for its job when
\* handle_queued_job has returned an error
Escalations ==
    {i \in DOMAIN calls : /\ calls[i].f = "add_completed_job_error"
                          /\ calls[i].on = "job"
                          /\ calls[i].arg = "unexpected"}

IsCall(i, f, on) == i \in DOMAIN calls /\ calls[i].f = f /\ calls[i].on = on

\* C21: when handle_queued_job has returned an error the dispatcher's next call is
\* add_completed_job_error on the job with the "Unexpected error" prefix; it is
\* followed by postprocess_queued_job on the job and then, if and only if the job
\* has a parent, by update_flow_status_after_job_completion with success = false.
C21_EscalationOrder ==
    /\ [][(dpc = "err_record" /\ dpc' # dpc) =>
            /\ Len(calls') = Len(calls) + 1
            /\ Len(calls') \in Escalations']_vars
    /\ [][dpc # "err_record" => Escalations' \subseteq Escalations]_vars
    /\ [](JobHandled =>
            \A i \in Escalations :
                /\ IsCall(i + 1, "postprocess_queued_job", "job")
                /\ IF job.has_parent
                   THEN /\ IsCall(i + 2, "update_flow_status_after_job_completion", "job")
                        /\ calls[i + 2].arg = "false"
                   ELSE \A k \in DOMAIN calls :
                          k > i => calls[k].f # "update_flow_status_after_job_completion")

\* an escalation for a job with a parent has run to its end, the callback made
C21_Witness ==
    /\ JobHandled
    /\ job.has_parent
    /\ \E i \in Escalations :
         /\ Len(calls) = i + 2
         /\ calls[i + 2].f = "update_flow_status_after_job_completion"
         /\ calls[i + 2].ok

\* the flow callback of the escalation that starts at position e has failed
CallbackFailed(e) ==
    /\ IsCall(e + 2, "update_flow_status_after_job_completion", "job")
    /\ ~calls[e + 2].ok

ParentCalls(f) ==
    Cardinality({k \in DOMAIN calls : calls[k].on = "parent" /\ calls[k].f = f})

\* C22, as stated: once the flow callback of the escalation has failed, one error
\* row is recorded on the parent and the parent is post-processed.
C22_ParentAlwaysRecorded ==
    (JobHandled /\ \E e \in Escalations : CallbackFailed(e))
        => /\ ParentCalls("add_completed_job_error") = 1
           /\ ParentCalls("postprocess_queued_job") = 1

\* C22, amended: once the flow callback of the escalation has failed the parent is
\* looked up; if the transaction opens and the parent is still queued, one
\* add_completed_job_error and then one postprocess_queued_job are called on it,
\* and nothing else; if not, nothing is called on the parent. No call is made on
\* the parent when the callback did not fail, none on any other job, and the
\* dispatcher goes on to its select.
C22_ParentRecordedIfFound ==
    /\ [](JobHandled =>
            /\ \A e \in Escalations :
                 CallbackFailed(e) =>
                   /\ IsCall(e + 3, "get_queued_job", "parent")
                   /\ IF calls[e + 3].ok
                      THEN /\ Len(calls) = e + 5
                           /\ IsCall(e + 4, "add_completed_job_error", "parent")
                           /\ calls[e + 4].arg = "flow_error"
                           /\ IsCall(e + 5, "postprocess_queued_job", "parent")
                      ELSE Len(calls) = e + 3
            /\ \A k \in DOMAIN calls :
                 /\ calls[k].on \in {"job", "parent"}
                 /\ calls[k].on = "parent" =>
                      \E e \in Escalations : CallbackFailed(e) /\ k > e + 2
            /\ ParentCalls("add_completed_job_error") <= 1
            /\ ParentCalls("postprocess_queued_job") <= 1)
    /\ [][(dpc = "err_parent" /\ dpc' # dpc) => dpc' = "select"]_vars

\* the callback failed, the parent was found, and its error row and
\* post-processing were called
C22_Witness ==
    /\ JobHandled
    /\ \E e \in Escalations : CallbackFailed(e) /\ calls[e + 3].ok
    /\ ParentCalls("add_completed_job_error") = 1
    /\ ParentCalls("postprocess_queued_job") = 1

\* ------------------------------------------------------------------------
\* Claims about the pinger (SpecPing)
\* ------------------------------------------------------------------------

\* the pinger issues an update in this step
PingIssued == pingWake' # pingWake

\* C23: the pinger's first update is due at once and each later one a period after
\* the one before; an update is issued exactly when it is due and only with done
\* unset; whether it succeeds or fails, the pinger goes on and done and the child
\* are untouched; the pinger stops only on seeing done, and once stopped it
\* issues no update.
C23_PingerKeepsPinging ==
    /\ []((ppc = "run" /\ supPc # "idle") => now <= pingWake)
    /\ [](ppc = "exited" => done)
    /\ [][PingIssued =>
            /\ ~done
            /\ now = pingWake
            /\ pingWake' = now + PingPeriod
            /\ last_ping' \in {now, last_ping}
            /\ ppc' = "run"
            /\ done' = done
            /\ childState' = childState]_vars
    /\ [][ppc = "exited" =>
            (ppc' = "exited" /\ last_ping' = last_ping /\ pingWake' = pingWake)]_vars
    /\ [][last_ping' # last_ping => PingIssued]_vars

\* after a first update that failed, the second update, a period later, has
\* succeeded with the child still running
C23_Witness ==
    /\ last_ping = PingPeriod
    /\ pingWake = 2 * PingPeriod
    /\ childState = "running"
    /\ ~done
    /\ ppc = "run"

\* a receive of one line from the log channel by the supervisor loop
ReceiveStep == supPc = "select" /\ chan # <<>> /\ chan' = Tail(chan)

\* a write to queue.logs by the flush loop of handle_child
FlushStep == supPc = "select" /\ dbLogs' # dbLogs

\* the length of logs on entry to handle_child that the row does not hold
UnflushedHead == IF phase = "install" THEN Len(Header) ELSE 0

\* C24: log order is arrival order. A received line is appended at the end of the
\* in-memory logs and nothing already there moves; a flush appends to queue.logs
\* exactly the slice of logs after the last flushed position and the loop then
\* moves that position to the end of logs, so successive flushes write disjoint
\* consecutive slices; the position never moves back; and as long as no flush has
\* failed the row holds exactly the flushed part of logs, in order.
C24_LogOrderIsArrivalOrder ==
    /\ [][ReceiveStep =>
            /\ IsPrefix(logs, logs')
            /\ SubSeq(logs', Len(logs') - Len(Head(chan)), Len(logs'))
                   = <<"\n">> \o Head(chan)]_vars
    /\ [][FlushStep =>
            /\ start < Len(logs)
            /\ dbLogs' = dbLogs \o SubSeq(logs, start + 1, Len(logs))
            /\ logs' = logs
            /\ (supPc' = "loop" => start' = Len(logs))]_vars
    /\ [][(supPc \in {"loop", "select"}) =>
            (start' = start \/ (start' > start /\ start' = Len(logs)))]_vars
    /\ []((supPc \in {"loop", "select"} /\ ~dbFailed) =>
            dbLogs = SubSeq(logs, UnflushedHead + 1, start))

\* two lines received one after the other and flushed to the row in that order
C24_Witness ==
    /\ phase = "install"
    /\ supPc = "loop"
    /\ ~dbFailed
    /\ Len(written) = 2
    /\ written[1] # written[2]
    /\ logs = Header \o <<"\n">> \o written[1] \o <<"\n">> \o written[2]
    /\ dbLogs = <<"\n">> \o written[1] \o <<"\n">> \o written[2]
    /\ start = Len(logs)

ScriptColumns == {"script.lock", "script.lock_error_logs"}

\* C25: only Dependencies jobs write to the script row. Once the job is handled:
\* a Dependencies job whose pip-compile child exited with success has written lock
\* once and not lock_error_logs; one whose child exited with non-success or was
\* interrupted has written lock_error_logs once and not lock; a job of any other
\* kind has written neither.
C25_ScriptRowOnlyByDependencies ==
    JobHandled =>
        /\ (job.kind = "Dependencies" /\ status = "success") =>
              /\ NCalls({"script.lock"}) = 1
              /\ NCalls({"script.lock_error_logs"}) = 0
        /\ (job.kind = "Dependencies" /\ status \in {"failure", "interrupted"}) =>
              /\ NCalls({"script.lock_error_logs"}) = 1
              /\ NCalls({"script.lock"}) = 0
        /\ job.kind # "Dependencies" => NCalls(ScriptColumns) = 0

\* a step of handle_child in which a database call fails for the first time
FirstDbFailure == ~dbFailed /\ dbFailed'

\* C26: a failed database call inside the supervisor is swallowed. The step in
\* which a flush, a last_ping update, the read of canceled or the timeout update
\* fails does not kill the child, does not stop the pinger and touches neither the
\* waiter's outcome nor the result; it sets done only if the same tick has read
\* canceled = true from the row. What handle_child returns is always the waiter's
\* outcome: an exit status or "execution interrupted", never a database error.
C26_DbFailuresSwallowed ==
    /\ [][FirstDbFailure =>
            /\ (done' # done => (canceled /\ supPc = "select"))
            /\ childState' = childState
            /\ wpc' = wpc
            /\ wres' = wres
            /\ result' = result
            /\ ppc' = ppc]_vars
    /\ [][result' # result => (wpc = "finished" /\ result' = wres)]_vars
    /\ [](supPc = "returned" => result \in {"success", "failure", "interrupted"})

\* the child has exited with success and handle_child has returned that status,
\* although a database call failed on the way and the row holds none of the logs
C26_Witness ==
    /\ dbFailed
    /\ supPc = "returned"
    /\ result = "success"
    /\ ~canceled
    /\ phase = "install"
    /\ dbLogs = <<>>
    /\ start > Len(Header)

\* C27: when the child has exited by itself and handle_child has returned its exit
\* status, every line the child wrote is in logs, none is left in a pipe or in the
\* log channel. Stated for lines no longer than MAX_LOG_SIZE (a longer one is
\* replaced by the streamer) and for runs in which nothing else has set done.
C27_AllLinesLoggedOnExit ==
    (supPc = "returned" /\ result \in {"success", "failure"} /\ ~askedKill /\ ~canceled)
        => /\ pipeOut = <<>> /\ pipeErr = <<>> /\ chan = <<>>
           /\ \A k \in DOMAIN written :
                Len(written[k]) <= MAX_LOG_SIZE => HasText(logs, <<"\n">> \o written[k])

\* the child is killed by this step
KillStep == childState = "running" /\ childState' = "killed"

C29_PostprocessOncePerJob ==
    /\ NCalls({"postprocess_queued_job"}) <= 1
    /\ (JobHandled /\ job.kind \notin FlowKinds) => NCalls({"postprocess_queued_job"}) = 1

\* a job whose completion record failed, escalated and post-processed once
C29_Witness ==
    /\ JobHandled
    /\ job.kind \notin FlowKinds
    /\ errCause = "add_completed_job"
    /\ Escalations # {}
    /\ NCalls({"postprocess_queued_job"}) = 1

\* ------------------------------------------------------------------------
\* Claims about the resolver run step by step (SpecResolveSteps)
\* ------------------------------------------------------------------------

====
